---- MODULE Spec2Model ----
(***************************************************************************)
(* A model of src/inputimeout/inputimeout.py: one timed line read, in its  *)
(* two variants (_posix_inputimeout: selector + readline, and              *)
(* _win_inputimeout: a kbhit/getwche polling loop), together with the      *)
(* input stream, the monotonic clock and the user who types.               *)
(*                                                                         *)
(* Time is counted in ticks of 25 ms.  Computation takes no time: the      *)
(* clock advances only while the call is blocked (in select, in readline,  *)
(* in time.sleep), and a sleep lasts exactly the interval asked for.         *)
(*                                                                         *)
(* Time that passes between two calls is not modelled: a call reads the    *)
(* clock anew and nothing of it depends on when the last one ended.        *)
(*                                                                         *)
(* A keystroke is a record [c, id]: c is the character and id a ghost, the *)
(* key's rank among all keys supplied.                                     *)
(***************************************************************************)
EXTENDS Integers, Sequences, FiniteSets, TLC

\* ---------------------------------------------------------------- bounds
MaxKeys == 3
MaxCalls == 2
MaxClock == 7
MaxTimeout == 5

\* ------------------------------------------------------------- constants
\* WIN_INTERVAL = 0.05 s, in ticks of 25 ms.
WIN_INTERVAL == 2
SP == "SP"
CR == "CR"
LF == "LF"
CRLF == <<CR, LF>>
\* "\003" and "\b" of _win_inputimeout
ETX == "ETX"
BS == "BS"

\* timeout: Optional[float]; None is <<>>, a number t is <<t>>.
None == <<>>
Timeouts == {None} \cup {<<t>> : t \in (0 - 1)..MaxTimeout}
Prompts == {<<>>, <<"p">>}

VARIABLES
    variant,    \* which function inputimeout is bound to: "posix" or "win"
    isatty,     \* posix: sys.stdin is a terminal in canonical mode (else a pipe)
    clock,      \* time.monotonic(), in ticks
    pc,         \* "idle" | "select" | "readline" | "loop" | "sleep"
    prompt,     \* argument of the call in flight (or of the last call)
    timeout,    \* argument of the call in flight (or of the last call)
    begin,      \* clock at call start
    end,        \* begin + timeout (win: the variable; posix: select's deadline)
    wake,       \* win: when the current time.sleep returns
    line,       \* win: the line buffer
    inq,        \* unread input at OS level: console input buffer / kernel read queue
    ttyEdit,    \* posix tty: the line being typed, not yet readable
    pybuf,      \* posix: characters sys.stdin has read from the fd but not returned
    eof,        \* posix pipe: the writer has closed
    selOpen,    \* posix: selectors created and not closed
    selReg,     \* posix: registrations of stdin not unregistered
    out,        \* what _echo has written during the call
    outcome,    \* "none" | "return" | "TimeoutError" | "KeyboardInterrupt" |
                \* "OSError" | "TypeError" | "termios.error"
    result,     \* the returned string (keys), <<>> unless outcome = "return"
    calls,      \* calls started
    nKeys,      \* keys supplied
    staleKeys,  \* ghost: keys supplied before the end of the last call that timed out
    consumed,   \* ghost, win: keys read by getwche in this call
    stream,     \* ghost: keys supplied during this call
    late,       \* ghost: how many of them at or after its deadline
    pend0,      \* ghost: input unread at call start
    lastKeyAt,  \* ghost: clock of the last key of stream (begin if none)
    polls,      \* ghost: checks of the input made by this call (select / kbhit)
    endedAt,    \* ghost: clock when the last call ended
    rawLine,    \* ghost, posix: what readline returned, before rstrip
    prev        \* ghost: the call before this one (its input and its end)

vars == <<variant, isatty, clock, pc, prompt, timeout, begin, end, wake, line,
          inq, ttyEdit, pybuf, eof, selOpen, selReg, out, outcome, result,
          calls, nKeys, staleKeys, consumed, stream, late, pend0, lastKeyAt,
          polls, endedAt, rawLine, prev>>

\* ------------------------------------------------------------ helpers
Key(c, id) == [c |-> c, id |-> id]
Chars(s) == [i \in 1..Len(s) |-> s[i].c]
Max(a, b) == IF a >= b THEN a ELSE b

Terminators == {CR, LF}
HasChar(s, C) == \E i \in 1..Len(s) : s[i].c \in C
\* index of the first key of s whose character is in C (0 if none)
FirstIdx(s, C) ==
    IF HasChar(s, C) THEN CHOOSE i \in 1..Len(s) :
                              /\ s[i].c \in C
                              /\ \A j \in 1..(i - 1) : s[j].c \notin C
    ELSE 0

\* what is remembered of a call once the next one starts
\* (positive: it had a timeout > 0)
CallRecord(pos, p0, o, r) ==
    [positive |-> pos, pend0 |-> p0, outcome |-> o, result |-> r]
NoCall == CallRecord(FALSE, <<>>, "none", <<>>)

Init ==
    /\ variant \in {"posix", "win"}
    /\ isatty \in BOOLEAN
    /\ (variant = "win" => isatty)
    /\ clock = 0
    /\ pc = "idle"
    /\ prompt = <<>>
    /\ timeout = None
    /\ begin = 0
    /\ end = 0
    /\ wake = 0
    /\ line = <<>>
    /\ inq = <<>>
    /\ ttyEdit = <<>>
    /\ pybuf = <<>>
    /\ eof = FALSE
    /\ selOpen = 0
    /\ selReg = 0
    /\ out = <<>>
    /\ outcome = "none"
    /\ result = <<>>
    /\ calls = 0
    /\ nKeys = 0
    /\ staleKeys = 0
    /\ consumed = <<>>
    /\ stream = <<>>
    /\ late = 0
    /\ pend0 = <<>>
    /\ lastKeyAt = 0
    /\ polls = 0
    /\ endedAt = 0
    /\ rawLine = <<>>
    /\ prev = NoCall

\* ------------------------------------------------- pieces of the code
\* _echo(s): sys.stdout.write(s); sys.stdout.flush()
EchoNothing(o, s) == o
Echo(o, s) == o \o s

\* str.rstrip(LF): every trailing line feed is removed
RECURSIVE Rstrip(_)
RstripNone(s) == s
Rstrip(s) ==
    IF s # <<>> /\ s[Len(s)].c = LF THEN Rstrip(SubSeq(s, 1, Len(s) - 1)) ELSE s

\* line[:-1]
DelLastKeep(l) == l
DelLast(l) == SubSeq(l, 1, Len(l) - 1)

\* cover = SP * len(prompt + line + SP), line being the buffer after the removal
CoverNoExtra(p, l) == [i \in 1..(Len(p) + Len(l)) |-> SP]
Cover(p, l) == [i \in 1..(Len(p) + Len(l) + Len(<<SP>>)) |-> SP]
\* "".join([CR, cover, CR, prompt, line])
Redraw(p, l) == <<CR>> \o Cover(p, l) \o <<CR>> \o p \o Chars(l)

\* the tests made on the character read by getwche
IsTerminator(c) == c \in {CR, LF}
IsInterruptNever(c) == FALSE
IsInterrupt(c) == c = ETX
IsBackspaceNever(c) == FALSE
IsBackspace(c) == c = BS

\* while time.monotonic() < end
LoopCondSinceLastKey == clock < lastKeyAt + timeout[1]
LoopCond == clock < end
\* msvcrt.kbhit()
Kbhit == inq # <<>>

\* sel.select(timeout): stdin is readable (data or end of input at the fd) ...
Readable == inq # <<>> \/ eof
\* ... or the timeout has run out (never, with timeout None; at once, with <= 0)
SelectTimedOut == timeout # None /\ clock >= end

\* sys.stdin.readline() can go on: a whole line is buffered, or the fd has data
\* or is at end of input
HasLine(s) == HasChar(s, {LF})
ReadlineReady == HasLine(pybuf) \/ inq # <<>> \/ eof
\* one read() of the fd: a terminal in canonical mode hands over one line, a
\* pipe whatever it holds
ReadChunk ==
    IF isatty /\ HasLine(inq) THEN SubSeq(inq, 1, FirstIdx(inq, {LF})) ELSE inq

\* cleanup(sel): sel.unregister(sys.stdin); sel.close()
cleanup ==
    /\ selReg' = selReg - 1
    /\ selOpen' = selOpen - 1

\* the call ends: a return or a raise
Finish(o, r) ==
    /\ pc' = "idle"
    /\ outcome' = o
    /\ result' = r
    /\ endedAt' = clock
    /\ staleKeys' = IF o = "TimeoutError" THEN nKeys ELSE staleKeys

Active == pc # "idle"

\* the entry of either variant: the arguments, _echo(prompt)
StartCall(p, t) ==
    /\ pc = "idle"
    /\ calls < MaxCalls
    /\ t # None => clock + Max(t[1], 0) + WIN_INTERVAL <= MaxClock
    /\ calls' = calls + 1
    /\ prompt' = p
    /\ timeout' = t
    /\ begin' = clock
    /\ out' = Echo(<<>>, p)
    /\ consumed' = <<>>
    /\ stream' = <<>>
    /\ late' = 0
    /\ pend0' = pybuf \o inq \o ttyEdit
    /\ lastKeyAt' = clock
    /\ polls' = 0
    /\ rawLine' = <<>>
    /\ prev' = IF calls = 0 THEN NoCall
                ELSE CallRecord(timeout # None /\ timeout[1] > 0, pend0, outcome,
                                result)

\* ------------------------------------------------- _posix_inputimeout
\* lines 77-80: the prompt, the selector (which the OS may refuse: too many
\* open files), the registration of stdin
posix_inputimeout(p, t) ==
    /\ variant = "posix"
    /\ StartCall(p, t)
    /\ end' = IF t = None THEN 0 ELSE clock + t[1]
    /\ \E ok \in BOOLEAN :
         IF ok
         THEN /\ selOpen' = selOpen + 1
              /\ selReg' = selReg + 1
              /\ pc' = "select"
              /\ outcome' = "none"
              /\ result' = <<>>
              /\ UNCHANGED <<endedAt, staleKeys>>
         ELSE /\ Finish("OSError", <<>>)
              /\ UNCHANGED <<selOpen, selReg>>
    /\ UNCHANGED <<variant, isatty, clock, wake, line, inq, ttyEdit, pybuf, eof,
                   nKeys>>

\* line 81 and the branch on its result: events, or lines 92-97
PosixSelectReady ==
    /\ pc = "select"
    /\ Readable
    /\ polls' = polls + 1
    /\ pc' = "readline"
    /\ UNCHANGED <<variant, isatty, clock, prompt, timeout, begin, end, wake,
                   line, inq, ttyEdit, pybuf, eof, selOpen, selReg, out, outcome,
                   result, calls, nKeys, staleKeys, consumed, stream, pend0,
                   lastKeyAt, endedAt, rawLine,
                   late, prev>>

\* termios.tcflush(sys.stdin, TCIFLUSH): a terminal drops what it received and
\* nobody read; anything else raises termios.error (ENOTTY)
PosixSelectTimeout ==
    /\ pc = "select"
    /\ ~Readable
    /\ SelectTimedOut
    /\ polls' = polls + 1
    /\ out' = Echo(out, <<LF>>)
    /\ IF isatty
       THEN /\ inq' = <<>>
            /\ ttyEdit' = <<>>
            /\ cleanup
            /\ Finish("TimeoutError", <<>>)
       ELSE /\ Finish("termios.error", <<>>)
            /\ UNCHANGED <<inq, ttyEdit, selOpen, selReg>>
    /\ UNCHANGED <<variant, isatty, clock, prompt, timeout, begin, end, wake,
                   line, pybuf, eof, calls, nKeys, consumed, stream, pend0,
                   lastKeyAt, rawLine,
                   late, prev>>

\* line 85, key.fileobj.readline(): a buffered line is returned; else the fd is
\* read once more; at end of input what is buffered is the line
PosixReadlineFill ==
    /\ pc = "readline"
    /\ ~HasLine(pybuf)
    /\ inq # <<>>
    /\ pybuf' = pybuf \o ReadChunk
    /\ inq' = SubSeq(inq, Len(ReadChunk) + 1, Len(inq))
    /\ UNCHANGED <<variant, isatty, clock, pc, prompt, timeout, begin, end, wake,
                   line, ttyEdit, eof, selOpen, selReg, out, outcome, result,
                   calls, nKeys, staleKeys, consumed, stream, pend0, lastKeyAt,
                   polls, endedAt, rawLine,
                   late, prev>>

\* lines 85-89: .rstrip(LF), cleanup(sel), return data
PosixReadlineReturn ==
    /\ pc = "readline"
    /\ HasLine(pybuf) \/ (inq = <<>> /\ eof)
    /\ LET n == IF HasLine(pybuf) THEN FirstIdx(pybuf, {LF}) ELSE Len(pybuf)
       IN  /\ pybuf' = SubSeq(pybuf, n + 1, Len(pybuf))
           /\ rawLine' = SubSeq(pybuf, 1, n)
           /\ Finish("return", Rstrip(rawLine'))
    /\ cleanup
    /\ UNCHANGED <<variant, isatty, clock, prompt, timeout, begin, end, wake,
                   line, inq, ttyEdit, eof, out, calls, nKeys, consumed, stream,
                   pend0, lastKeyAt, polls,
                   late, prev>>

\* --------------------------------------------------- _win_inputimeout
\* lines 117-120; end = begin + timeout raises TypeError when timeout is None
win_inputimeout(p, t) ==
    /\ variant = "win"
    /\ StartCall(p, t)
    /\ IF t = None
       THEN /\ Finish("TypeError", <<>>)
            /\ UNCHANGED <<end, wake, line>>
       ELSE /\ end' = clock + t[1]
            /\ line' = <<>>
            /\ wake' = clock
            /\ pc' = "loop"
            /\ outcome' = "none"
            /\ result' = <<>>
            /\ UNCHANGED <<endedAt, staleKeys>>
    /\ UNCHANGED <<variant, isatty, clock, inq, ttyEdit, pybuf, eof, selOpen,
                   selReg, nKeys>>

\* lines 122-140, one iteration in which a key is pending
WinKey ==
    /\ pc = "loop"
    /\ LoopCond
    /\ Kbhit
    /\ polls' = polls + 1
    /\ LET k == Head(inq)
       IN  /\ inq' = Tail(inq)
           /\ consumed' = Append(consumed, k)
           /\ IF IsTerminator(k.c)
              THEN /\ out' = Echo(out, CRLF)
                   /\ Finish("return", line)
                   /\ UNCHANGED <<line, wake>>
              ELSE IF IsInterrupt(k.c)
              THEN /\ Finish("KeyboardInterrupt", <<>>)
                   /\ UNCHANGED <<line, wake, out>>
              ELSE /\ IF IsBackspace(k.c)
                      THEN /\ line' = DelLast(line)
                           /\ out' = Echo(out, Redraw(prompt, line'))
                      ELSE /\ line' = Append(line, k)
                           /\ out' = out
                   /\ wake' = clock + WIN_INTERVAL
                   /\ pc' = "sleep"
                   /\ UNCHANGED <<outcome, result, endedAt, staleKeys>>
    /\ UNCHANGED <<variant, isatty, clock, prompt, timeout, begin, end, ttyEdit,
                   pybuf, eof, selOpen, selReg, calls, nKeys, stream, pend0,
                   lastKeyAt, rawLine,
                   late, prev>>

\* lines 122-123, 140: one iteration in which no key is pending
WinNoKey ==
    /\ pc = "loop"
    /\ LoopCond
    /\ ~Kbhit
    /\ polls' = polls + 1
    /\ wake' = clock + WIN_INTERVAL
    /\ pc' = "sleep"
    /\ UNCHANGED <<variant, isatty, clock, prompt, timeout, begin, end, line,
                   inq, ttyEdit, pybuf, eof, selOpen, selReg, out, outcome,
                   result, calls, nKeys, staleKeys, consumed, stream, pend0,
                   lastKeyAt, endedAt, rawLine,
                   late, prev>>

\* line 140: time.sleep(WIN_INTERVAL) returns
WinWake ==
    /\ pc = "sleep"
    /\ clock >= wake
    /\ pc' = "loop"
    /\ UNCHANGED <<variant, isatty, clock, prompt, timeout, begin, end, wake,
                   line, inq, ttyEdit, pybuf, eof, selOpen, selReg, out, outcome,
                   result, calls, nKeys, staleKeys, consumed, stream, pend0,
                   lastKeyAt, polls, endedAt, rawLine,
                   late, prev>>

\* lines 142-143: the loop condition fails
WinTimeout ==
    /\ pc = "loop"
    /\ ~LoopCond
    /\ out' = Echo(out, CRLF)
    /\ Finish("TimeoutError", <<>>)
    /\ UNCHANGED <<variant, isatty, clock, prompt, timeout, begin, end, wake,
                   line, inq, ttyEdit, pybuf, eof, selOpen, selReg, calls, nKeys,
                   consumed, stream, pend0, lastKeyAt, polls, rawLine,
                   late, prev>>

\* -------------------------------------------------------- environment
\* the call waits: in select, in readline's read, in time.sleep
Blocked ==
    \/ pc = "select" /\ ~Readable /\ ~SelectTimedOut
    \/ pc = "readline" /\ ~ReadlineReady
    \/ pc = "sleep" /\ clock < wake

Tick ==
    /\ clock < MaxClock
    /\ Blocked
    /\ clock' = clock + 1
    /\ UNCHANGED <<variant, isatty, pc, prompt, timeout, begin, end, wake, line,
                   inq, ttyEdit, pybuf, eof, selOpen, selReg, out, outcome,
                   result, calls, nKeys, staleKeys, consumed, stream, pend0,
                   lastKeyAt, polls, endedAt, rawLine,
                   late, prev>>

\* what the user can type: the console delivers every key to getwche; on posix
\* only ordinary characters and the line feed are modelled
Alphabet == IF variant = "win" THEN {"a", BS, ETX, CR, LF} ELSE {"a", LF}

\* input supplied after the last call modelled is never read
Listening == Active \/ calls < MaxCalls

\* the deadline of the call has not come
InTime == timeout = None \/ clock < end

KeyPress(c) ==
    /\ nKeys < MaxKeys
    /\ Listening
    /\ ~eof
    /\ nKeys' = nKeys + 1
    /\ LET k == Key(c, nKeys + 1)
       IN  /\ IF variant = "posix" /\ isatty
              THEN IF c = LF
                   THEN /\ inq' = inq \o ttyEdit \o <<k>>
                        /\ ttyEdit' = <<>>
                   ELSE /\ ttyEdit' = Append(ttyEdit, k)
                        /\ inq' = inq
              ELSE /\ inq' = Append(inq, k)
                   /\ ttyEdit' = ttyEdit
           /\ IF Active
              THEN /\ stream' = Append(stream, k)
                   /\ late' = IF InTime THEN late ELSE late + 1
                   /\ lastKeyAt' = clock
              ELSE UNCHANGED <<stream, late, lastKeyAt>>
    /\ UNCHANGED <<variant, isatty, clock, pc, prompt, timeout, begin, end, wake,
                   line, pybuf, eof, selOpen, selReg, out, outcome, result, calls,
                   staleKeys, consumed, pend0, polls, endedAt, rawLine,
                   prev>>

\* the writer of the pipe closes it
CloseInput ==
    /\ Listening
    /\ variant = "posix"
    /\ ~isatty
    /\ ~eof
    /\ eof' = TRUE
    /\ UNCHANGED <<variant, isatty, clock, pc, prompt, timeout, begin, end, wake,
                   line, inq, ttyEdit, pybuf, selOpen, selReg, out, outcome,
                   result, calls, nKeys, staleKeys, consumed, stream, pend0,
                   lastKeyAt, polls, endedAt, rawLine,
                   late, prev>>

Next ==
    \/ \E p \in Prompts, t \in Timeouts : posix_inputimeout(p, t)
    \/ PosixSelectReady
    \/ PosixSelectTimeout
    \/ PosixReadlineFill
    \/ PosixReadlineReturn
    \/ \E p \in Prompts, t \in Timeouts : win_inputimeout(p, t)
    \/ WinKey
    \/ WinNoKey
    \/ WinWake
    \/ WinTimeout
    \/ Tick
    \/ \E c \in Alphabet : KeyPress(c)
    \/ CloseInput

Spec == Init /\ [][Next]_vars

TypeOK ==
    /\ pc \in {"idle", "select", "readline", "loop", "sleep"}
    /\ clock \in 0..MaxClock
    /\ selOpen \in 0..MaxCalls
    /\ selReg \in 0..MaxCalls

\* ============================================================ claims
Ended == pc = "idle" /\ calls > 0
Finite == timeout # None
\* the terminators of the variant: readline ends a line at LF, the loop at CR or LF
LineEnd == IF variant = "win" THEN {CR, LF} ELSE {LF}
Front(s) == SubSeq(s, 1, Len(s) - 1)
\* s is a terminator-free text followed by one terminator
IsLine(s) ==
    /\ s # <<>>
    /\ s[Len(s)].c \in LineEnd
    /\ ~HasChar(Front(s), Terminators)
\* a call that began with nothing unread and was supplied, before its deadline,
\* exactly one line, of ordinary characters
SuppliedOneLine ==
    /\ Ended
    /\ Finite
    /\ timeout[1] > 0
    /\ pend0 = <<>>
    /\ IsLine(stream)
    /\ late = 0
    /\ ~HasChar(stream, {BS, ETX})

NoInput == nKeys = 0 /\ ~eof

\* C2 as stated: for every timeout T >= 0, on both variants, if no input is ever
\* supplied the call fails with TimeoutError (unless the OS refuses the
\* selector), never before call-start + T and, in the polling variant, less
\* than one poll interval after the deadline; it does not wait beyond that.
C2_Claim ==
    (calls > 0 /\ Finite /\ timeout[1] >= 0 /\ NoInput) =>
        /\ Ended => /\ outcome \in {"TimeoutError", "OSError"}
                    /\ outcome = "TimeoutError" =>
                           /\ endedAt >= begin + timeout[1]
                           /\ endedAt < end + WIN_INTERVAL
        /\ Active => clock < end + WIN_INTERVAL

\* C3 as stated: with timeout None, on whichever variant is bound, the call
\* never fails with TimeoutError or any other error for want of input: it ends
\* only by returning the line supplied (or by an interrupt typed, or an OS error).
C3_Claim ==
    (Ended /\ timeout = None) =>
        outcome \in {"return", "KeyboardInterrupt", "OSError"}

\* errors of the OS that the call lets through: the selector refused, and the
\* flush of an input that is no terminal (settled under C2 and C6)
OSLevel == {"OSError", "termios.error"}

\* a complete line was unread when the call started
LineAtStart == HasChar(pend0, LineEnd)

\* C4 as stated: with timeout <= 0, on both variants, the call returns the line
\* already available at call time, or else fails with TimeoutError at once; in
\* neither case does it sleep or block (no time passes during the call).
\* Errors of the OS aside.
C4_Claim ==
    (calls > 0 /\ Finite /\ timeout[1] <= 0) =>
        /\ Active => clock = begin
        /\ Ended => /\ endedAt = begin
                    /\ outcome \notin OSLevel =>
                           IF LineAtStart THEN outcome = "return"
                                          ELSE outcome = "TimeoutError"

\* no terminated line was unread at call start or has been supplied since, and
\* the input has not ended
NoLineSupplied == ~HasChar(pend0 \o stream, LineEnd) /\ ~eof

\* C5 as stated: for every finite timeout, on both variants, if the deadline
\* passes without a terminated line having been supplied, the call ends by
\* TimeoutError (if an interrupt typed or an error of the OS has not ended it
\* before), and it is never still waiting after the deadline.
C5_Claim ==
    (calls > 0 /\ Finite /\ NoLineSupplied) =>
        /\ Ended => outcome \in {"TimeoutError", "KeyboardInterrupt"} \cup OSLevel
        /\ Active => clock < Max(begin, end) + WIN_INTERVAL

\* C6 as stated: in _posix_inputimeout, on every exit path after the selector
\* is created, the registration is removed and the selector closed before
\* control leaves the call: between calls no selector is open and no
\* registration is live.
C6_Claim ==
    pc = "idle" => (selOpen = 0 /\ selReg = 0)

\* C7 as stated: on both variants, no character supplied before the end of a
\* call that timed out appears in the result of a later call.
C7_Claim ==
    (Ended /\ outcome = "return") =>
        \A i \in 1..Len(result) : result[i].id > staleKeys

\* the keys the call could see: unread at its start, then supplied before its
\* deadline
Timely == pend0 \o SubSeq(stream, 1, Len(stream) - late)
\* the interrupt character was typed before any terminator and before the deadline
InterruptTyped ==
    /\ HasChar(Timely, {ETX})
    /\ HasChar(Timely, Terminators) =>
           FirstIdx(Timely, {ETX}) < FirstIdx(Timely, Terminators)

\* C8 as stated: in _win_inputimeout, whenever the interrupt character is typed
\* before any terminator and before the deadline (timeout > 0), the call ends by
\* KeyboardInterrupt and returns nothing.
C8_Claim ==
    (Ended /\ variant = "win" /\ Finite /\ timeout[1] > 0 /\ InterruptTyped) =>
        (outcome = "KeyboardInterrupt" /\ result = <<>>)

\* C8, amended: in _win_inputimeout, whenever the loop reads the interrupt
\* character (getwche returns it, which happens only before the deadline and
\* before a terminator is read), the call ends there by KeyboardInterrupt,
\* returns nothing, and reads no further key.
C8_Amended ==
    (variant = "win" /\ HasChar(consumed, {ETX})) =>
        /\ pc = "idle"
        /\ outcome = "KeyboardInterrupt"
        /\ result = <<>>
        /\ consumed[Len(consumed)].c = ETX
        /\ ~HasChar(Front(consumed), {ETX} \cup Terminators)

\* an interrupt ended a call that had accumulated a character
C8_Witness ==
    /\ Ended
    /\ variant = "win"
    /\ outcome = "KeyboardInterrupt"
    /\ line # <<>>
    /\ result = <<>>

\* the fold of C9: an ordinary key is appended, a backspace removes the last
\* key if there is one
RECURSIVE FoldKeys(_)
FoldKeys(s) ==
    IF s = <<>> THEN <<>>
    ELSE LET r == FoldKeys(Front(s))
             k == s[Len(s)]
         IN  IF k.c = BS
             THEN (IF r = <<>> THEN <<>> ELSE Front(r))
             ELSE Append(r, k)

C10_Claim ==
    Ended =>
        /\ outcome \in {"return", "TimeoutError", "KeyboardInterrupt"} \cup OSLevel
        /\ outcome = "KeyboardInterrupt" => variant = "win"
        /\ outcome # "return" => result = <<>>
        /\ outcome = "return" =>
               IF variant = "win"
               THEN consumed # <<>> /\ consumed[Len(consumed)].c \in Terminators
               ELSE rawLine # <<>> /\ rawLine[Len(rawLine)].c = LF

\* how many keys of s have their character in C
RECURSIVE Count(_, _)
Count(s, C) ==
    IF s = <<>> THEN 0
    ELSE Count(Front(s), C) + (IF s[Len(s)].c \in C THEN 1 ELSE 0)
\* s is two complete lines, A LF B LF
TwoLines(s) == s # <<>> /\ s[Len(s)].c = LF /\ Count(s, {LF}) = 2
LineA(s) == SubSeq(s, 1, FirstIdx(s, {LF}) - 1)
LineB(s) == SubSeq(s, FirstIdx(s, {LF}) + 1, Len(s) - 1)
\* the second of two calls with a positive timeout, the first of which found
\* two complete lines unread
SecondOfTwo ==
    /\ variant = "posix"
    /\ calls = 2
    /\ prev.positive
    /\ TwoLines(prev.pend0)
    /\ prev.outcome \notin OSLevel
    /\ Finite
    /\ timeout[1] > 0

\* C11 as stated: in _posix_inputimeout, when two complete lines A LF B LF are
\* supplied at once and the function is then called twice with a positive
\* timeout, the first call returns A and the second returns B, without waiting
\* and without TimeoutError (errors of the OS at the selector aside).
C11_Claim ==
    SecondOfTwo =>
        /\ prev.outcome = "return"
        /\ prev.result = LineA(prev.pend0)
        /\ Active => clock = begin
        /\ (Ended /\ outcome # "OSError") =>
               /\ outcome = "return"
               /\ result = LineB(prev.pend0)
               /\ endedAt = begin

\* C12 as stated: in the _win_inputimeout loop the sleep is taken only in
\* iterations where no keystroke was pending (after a non-terminating key the
\* loop checks the deadline and the queue again without sleeping), so no time
\* passes while keys that were queued at call start are still unread.
C12_Claim ==
    [][/\ (pc = "loop" /\ pc' = "sleep") => ~Kbhit
       /\ (variant = "win" /\ Active /\ Len(consumed) < Len(pend0)) =>
              clock' = clock]_vars

\* a _win_inputimeout call that got as far as its line buffer (line 120), in
\* flight or ended
InWinCall == variant = "win" /\ calls > 0 /\ outcome # "TypeError"

\* C13: in every reachable state of a _win_inputimeout call the line buffer
\* holds no carriage return, line feed, interrupt character or backspace, and
\* is no longer than the number of keystrokes consumed so far; the string
\* returned holds no terminator.
C13_Buffer ==
    InWinCall =>
        /\ ~HasChar(line, {CR, LF, ETX, BS})
        /\ Len(line) <= Len(consumed)
        /\ outcome = "return" => ~HasChar(result, Terminators)

\* a call returned a non-empty line after a backspace had been read
C13_Witness ==
    /\ InWinCall
    /\ outcome = "return"
    /\ result # <<>>
    /\ HasChar(consumed, {BS})
    /\ Len(line) < Len(consumed) - 1

\* the line feeds written in o
Breaks(o) == Cardinality({i \in 1..Len(o) : o[i] = LF})
\* what the backspaces among the keys s make the loop write
RECURSIVE Redraws(_, _)
Redraws(p, s) ==
    IF s = <<>> THEN <<>>
    ELSE Redraws(p, Front(s)) \o
         (IF s[Len(s)].c = BS THEN Redraw(p, FoldKeys(s)) ELSE <<>>)

\* C14: on both variants the prompt is written once before the first wait or
\* keystroke check; on the timeout path exactly one line break (LF in
\* _posix_inputimeout, CR LF in _win_inputimeout) is written before the error
\* is raised (TimeoutError, or the error of the flush, see C2); on the success path of _win_inputimeout exactly one CR LF is
\* written before the return; on the interrupt path nothing further is written.
C14_Output ==
    calls > 0 =>
        /\ Len(out) >= Len(prompt)
        /\ SubSeq(out, 1, Len(prompt)) = prompt
        /\ (Active /\ polls = 0) => out = prompt
        /\ Active => Breaks(out) = 0
        /\ (Ended /\ variant = "posix"
                  /\ outcome \in {"TimeoutError", "termios.error"}) =>
               out = prompt \o <<LF>>
        /\ (Ended /\ variant = "win" /\ outcome = "TimeoutError") =>
               /\ out = prompt \o Redraws(prompt, consumed) \o CRLF
               /\ Breaks(out) = 1
        /\ (Ended /\ variant = "win" /\ outcome = "return") =>
               /\ out = prompt \o Redraws(prompt, Front(consumed)) \o CRLF
               /\ Breaks(out) = 1
        /\ (Ended /\ outcome = "KeyboardInterrupt") =>
               /\ out = prompt \o Redraws(prompt, Front(consumed))
               /\ Breaks(out) = 0

\* a polling call with a prompt timed out after it had redrawn the line
C14_Witness ==
    /\ Ended
    /\ variant = "win"
    /\ outcome = "TimeoutError"
    /\ prompt # <<>>
    /\ HasChar(consumed, {BS})
    /\ Breaks(out) = 1

\* C15: in _win_inputimeout the deadline is fixed once at call start as
\* monotonic now + timeout and no loop action (a character consumed, a
\* backspace redraw, a sleep) changes it: keys are read only before it, and a
\* loop that finds the clock at or past it ends by TimeoutError and returns
\* nothing, whatever has been typed.
C15_Deadline ==
    [][variant = "win" =>
          /\ Active' => end' = begin' + timeout'[1]
          /\ (Active /\ Active') => (end' = end /\ begin' = begin)
          /\ (Active /\ consumed' # consumed) => clock < end
          /\ (pc = "loop" /\ clock >= end /\ pc' # pc) =>
                 (outcome' = "TimeoutError" /\ result' = <<>>)]_vars

\* a call timed out on a user still typing: a character in the buffer, another
\* one typed and not read
C15_Witness ==
    /\ Ended
    /\ variant = "win"
    /\ Finite
    /\ timeout[1] > 0
    /\ outcome = "TimeoutError"
    /\ result = <<>>
    /\ line # <<>>
    /\ inq # <<>>
    /\ endedAt >= end

\* a run of n spaces
Spaces(n) == [i \in 1..n |-> SP]
\* the step in which the loop reads a backspace
BackspaceRead ==
    /\ variant = "win"
    /\ Len(consumed') = Len(consumed) + 1
    /\ consumed'[Len(consumed')].c = BS
\* line[:-1] on the buffer l, said without slicing
Removed(l) == IF l = <<>> THEN <<>> ELSE Front(l)
\* what the claim has the loop write on a backspace, the run of spaces being n wide
RedrawWritten(n) ==
    /\ line' = Removed(line)
    /\ out' = out \o <<CR>> \o Spaces(n) \o <<CR>> \o prompt \o Chars(line')

\* C16 as stated: in _win_inputimeout, on every backspace the output is exactly
\* CR, a run of spaces, CR, the prompt, the buffer after the removal, and the
\* run of spaces is len(prompt) + len(buffer before the backspace) + 1 wide.
C16_Claim ==
    [][BackspaceRead => RedrawWritten(Len(prompt) + Len(line) + 1)]_vars

\* C16, amended: the same, the run of spaces being len(prompt) + len(buffer
\* after the removal) + 1 wide.
C16_Amended ==
    [][BackspaceRead => RedrawWritten(Len(prompt) + Len(line') + 1)]_vars

\* after a prompt, a character was typed and a backspace removed it: the redraw
\* written is CR, len(prompt) + 1 spaces, CR, the prompt
C16_Witness ==
    /\ variant = "win"
    /\ pc = "sleep"
    /\ prompt # <<>>
    /\ Len(consumed) = 2
    /\ consumed[1].c = "a"
    /\ consumed[2].c = BS
    /\ line = <<>>
    /\ out = prompt \o <<CR>> \o Spaces(Len(prompt) + 1) \o <<CR>> \o prompt

====
